---- MODULE Spec2Model ----
(***************************************************************************)
(* Model of the live task-telemetry pipeline of the backend:               *)
(*   - ClaudeCodeAgent.execute_claude_code_streaming (the stdout parser),  *)
(*   - its three consumers (websocket_endpoint, stream_claude_response,    *)
(*     process_chat_with_sse),                                             *)
(*   - SSEManager / create_sse_stream (the per-session event queue),       *)
(*   - FileService.get_file_content (the workspace path check).            *)
(* Text is modelled as a tuple of tokens; the empty tuple is the empty     *)
(* string and also stands for an absent (None) field.                      *)
(***************************************************************************)
EXTENDS Integers, Sequences, FiniteSets, TLC

VARIABLES
    path,       \* delivery path that consumes the adapter's generator
    apc,        \* position of execute_claude_code_streaming
    lines,      \* stdout lines read so far (process.stdout.readline results)
    yielded,    \* events the generator has yielded so far
    rc,         \* return code of process.wait() (-1 while running)
    stderr,     \* captured standard error (process.stderr.read())
    client,     \* what the consumer has sent to its client so far
    mon,        \* the polling task (monitor_files) of the WebSocket handlers
    prev,       \* inputs and yields of the execution before this one
    active_streams, \* SSEManager.active_streams: session -> queue (0: no entry)
    queues,     \* the asyncio.Queue objects created so far, by identity
    subs,       \* the event_stream generators (SSE subscribers)
    execs,      \* the process_chat_with_sse tasks
    monitors,   \* FileStructureService._monitors: session -> owner of the callback
    pending,    \* callbacks scheduled on the event loop by call_soon_threadsafe
    npub,       \* number of events published so far
    lazy,       \* per session: the events put on a queue that send_event
                \* created, while no subscriber has attached since
    workspace,  \* per session: the files in its directory
    nfs,        \* number of file system events so far
    fres,       \* the last get_file_content request and its outcome
    active_workflows, \* ClaudeService._active_workflows: session -> workflow (0: none)
    agents,     \* the ClaudeCodeAgent objects of the workflows created so far
    clients,    \* the ClaudeSDKClient objects created so far
    calls,      \* the process_chat_message / resume_session calls
    session_files, \* the files of a session directory, each with its name
                \* and, as its content, the name it was uploaded under
    nup         \* number of uploads so far

avars == <<path, apc, lines, yielded, rc, stderr, client, mon, prev>>
hvars == <<active_streams, queues, subs, execs, monitors, pending, npub, nfs, lazy, workspace>>
fvars == <<fres>>
svars == <<active_workflows, agents, clients, calls>>
mvars == <<session_files, nup>>
xvars == <<svars, mvars>>

----------------------------------------------------------------------------
(* Bounds *)

MaxLines == 3
MaxYield == 2
MaxFsEvents == 1
MaxPings == 1
MaxPathLen == 3
MaxCreates == 2
MaxCalls == 2
MaxUploads == 3

----------------------------------------------------------------------------
(* Text helpers *)

Whitespace == {" ", "\n"}

RECURSIVE LStrip(_)
LStrip(s) ==
    IF s = <<>> THEN <<>>
    ELSE IF Head(s) \in Whitespace THEN LStrip(Tail(s)) ELSE s

RECURSIVE RStrip(_)
RStrip(s) ==
    IF s = <<>> THEN <<>>
    ELSE IF s[Len(s)] \in Whitespace THEN RStrip(SubSeq(s, 1, Len(s) - 1)) ELSE s

\* str.strip()
Strip(s) == RStrip(LStrip(s))

\* str(return_code)
CodeStr(c) == IF c = 0 THEN <<"0">> ELSE IF c = 1 THEN <<"1">> ELSE <<"2">>

----------------------------------------------------------------------------
(* Events (the dicts the generator yields) *)

Ev(ty, sub, msg, err, res, tn, ti, raw) ==
    [type |-> ty, subtype |-> sub, message |-> msg, error |-> err,
     result |-> res, tool_name |-> tn, tool_input |-> ti, raw_data |-> raw]

NoInput == [path |-> <<>>, file_path |-> <<>>, command |-> <<>>]

IsTerminal(e) == e.type \in {"success", "error"}

----------------------------------------------------------------------------
(* Stdout lines.  json is the outcome of json.loads on the stripped text:  *)
(* "invalid" (JSONDecodeError), "nonobject" (a JSON number, string, list)  *)
(* or "object" (a dict, whose fields follow).                              *)

Line(txt, js, ty, sub, cont, iserr, res) ==
    [text |-> txt, json |-> js, type |-> ty, subtype |-> sub,
     content |-> cont, is_error |-> iserr, result |-> res]

Block(ty, nm, inp, txt) == [type |-> ty, name |-> nm, input |-> inp, text |-> txt]

LsBlock   == Block("tool_use", "LS", [NoInput EXCEPT !.path = <<".">>], <<>>)
TextBlock == Block("text", "", NoInput, <<" ", "hi">>)
BadBlock  == Block("nondict", "", NoInput, <<>>)

BlankLine    == Line(<<" ", "\n">>, "invalid", "", "", <<>>, FALSE, <<>>)
GarbageLine  == Line(<<"warn", "\n">>, "invalid", "", "", <<>>, FALSE, <<>>)
NumberLine   == Line(<<"42", "\n">>, "nonobject", "", "", <<>>, FALSE, <<>>)
InitLine     == Line(<<"{init}">>, "object", "system", "init", <<>>, FALSE, <<>>)
UserLine     == Line(<<"{user}">>, "object", "user", "", <<>>, FALSE, <<>>)
LsLine       == Line(<<"{ls}">>, "object", "assistant", "", <<LsBlock>>, FALSE, <<>>)
TextLine     == Line(<<"{text}">>, "object", "assistant", "", <<LsBlock, TextBlock>>, FALSE, <<>>)
BadBlockLine == Line(<<"{bad}">>, "object", "assistant", "", <<BadBlock>>, FALSE, <<>>)
DoneLine     == Line(<<"{done}">>, "object", "result", "", <<>>, FALSE, <<"done">>)
FailLine     == Line(<<"{fail}">>, "object", "result", "", <<>>, TRUE, <<"fail">>)
ErrorLine    == Line(<<"{error}">>, "object", "error", "", <<>>, FALSE, <<>>)
OtherLine    == Line(<<"{other}">>, "object", "other", "", <<>>, FALSE, <<>>)

Lines == {BlankLine, GarbageLine, NumberLine, InitLine, UserLine, LsLine,
          TextLine, BadBlockLine, DoneLine, FailLine, ErrorLine, OtherLine}

----------------------------------------------------------------------------
(* The parser: one iteration of read_stdout *)

\* _format_tool_message
FormatToolMessage(tool_name, tool_input) ==
    IF tool_name = "LS" THEN <<"Listing: ">> \o tool_input.path
    ELSE IF tool_name = "Read" THEN <<"Reading: ">> \o tool_input.file_path
    ELSE IF tool_name = "Write" THEN
        <<"Writing: ">> \o (IF tool_input.file_path # <<>> THEN tool_input.file_path
                                                            ELSE tool_input.path)
    ELSE IF tool_name = "Bash" THEN <<"Running: ">> \o tool_input.command
    ELSE <<"Tool: ", tool_name>>

\* the loop over the content blocks of an assistant record; exc is set when
\* block.get fails on a block that is not a dict (AttributeError)
RECURSIVE AssistantEvents(_, _)
AssistantEvents(content, raw) ==
    IF content = <<>> THEN [events |-> <<>>, exc |-> FALSE]
    ELSE LET block == Head(content) IN
         IF block.type = "nondict" THEN [events |-> <<>>, exc |-> TRUE]
         ELSE LET rest == AssistantEvents(Tail(content), raw)
                  here == IF block.type = "tool_use"
                          THEN <<Ev("verbose", "tool_start",
                                    FormatToolMessage(block.name, block.input),
                                    <<>>, <<>>, block.name, block.input, <<>>)>>
                          ELSE IF block.type = "text" /\ Strip(block.text) # <<>>
                          THEN <<Ev("text", "", Strip(block.text), <<>>, <<>>, "", NoInput, raw)>>
                          ELSE <<>>
              IN [events |-> here \o rest.events, exc |-> rest.exc]

RawEvent(raw) == Ev("raw", "", <<>>, <<>>, <<>>, "", NoInput, raw)

\* data.get('result', 'Task completed')
ResultText(line) == IF line.result = <<>> THEN <<"Task completed">> ELSE line.result

\* What read_stdout does with one line: the events it yields, whether it
\* breaks out of its loop (stop) and whether an exception other than
\* JSONDecodeError escapes from it (exc).
ParseLine(line) ==
    LET line_text == Strip(line.text) IN
    IF line_text = <<>> THEN [events |-> <<>>, stop |-> FALSE, exc |-> FALSE]
    ELSE IF line.json = "invalid" THEN
        [events |-> <<Ev("verbose", "output", line_text, <<"JSON parse error">>,
                         <<>>, "", NoInput, <<>>)>>,
         stop |-> FALSE, exc |-> FALSE]
    ELSE IF line.json = "nonobject" THEN
        [events |-> <<>>, stop |-> FALSE, exc |-> TRUE]
    ELSE IF line.type = "system" /\ line.subtype = "init" THEN
        [events |-> <<Ev("verbose", "init", <<"Session initialized">>, <<>>, <<>>,
                         "", NoInput, line_text),
                      RawEvent(line_text)>>,
         stop |-> FALSE, exc |-> FALSE]
    ELSE IF line.type = "user" THEN
        [events |-> <<Ev("verbose", "user_input", <<"Processing your request...">>,
                         <<>>, <<>>, "", NoInput, line_text),
                      RawEvent(line_text)>>,
         stop |-> FALSE, exc |-> FALSE]
    ELSE IF line.type = "assistant" THEN
        LET a == AssistantEvents(line.content, line_text) IN
        [events |-> IF a.exc THEN a.events ELSE a.events \o <<RawEvent(line_text)>>,
         stop |-> FALSE, exc |-> a.exc]
    ELSE IF line.type = "result" THEN
        [events |-> IF line.is_error
                    THEN <<Ev("error", "", ResultText(line), ResultText(line), <<>>,
                              "", NoInput, line_text)>>
                    ELSE <<Ev("success", "", <<>>, <<>>, ResultText(line),
                              "", NoInput, line_text)>>,
         stop |-> TRUE, exc |-> FALSE]
    ELSE [events |-> <<RawEvent(line_text)>>, stop |-> FALSE, exc |-> FALSE]

\* an except-branch without the test for "separator" and "chunk"
ExceptionEventAlwaysError(kind) ==
    Ev("error", "", <<"CLI execution error: ", kind>>, <<kind>>, <<>>, "", NoInput, <<>>)

\* the except-branch of execute_claude_code_streaming; kind is the class of
\* the exception message ("sepchunk": it contains "separator" and "chunk")
ExceptionEvent(kind) ==
    IF kind = "sepchunk"
    THEN Ev("fallback_required", "", <<"Large response detected">>, <<"sepchunk">>,
            <<>>, "", NoInput, <<>>)
    ELSE Ev("error", "", <<"CLI execution error: ", kind>>, <<kind>>,
            <<>>, "", NoInput, <<>>)

\* the event yielded after process.wait()
ExitEvents(c, se) ==
    IF c # 0 /\ se # <<>>
    THEN <<Ev("error", "", <<"Process failed with code ">> \o CodeStr(c), Strip(se),
              <<>>, "", NoInput, <<>>)>>
    ELSE <<>>

----------------------------------------------------------------------------
(* The consumers of the generator *)

Paths == {"ws_main", "ws_service", "sse"}

\* classes of exception messages: with "separator" and "chunk" in any case,
\* with "separator" alone, with neither
ExcKinds == {"sepchunk", "separator", "other"}

\* results of ClaudeService.process_chat_message (the non-streaming call)
FallbackResults == {[success |-> TRUE,  message |-> <<"ok">>],
                    [success |-> FALSE, message |-> <<"Error: sdk">>]}

Msg(ty, msg) == Ev(ty, "", msg, <<>>, <<>>, "", NoInput, <<>>)

\* SSEManager.send_verbose / send_text / send_success / send_error: the
\* (type, data) pair handed to send_event
SendVerbose(msg, sub, tn, ti) == Ev("verbose", sub, msg, <<>>, <<>>, tn, ti, <<>>)
SendText(content)             == Ev("text", "", content, <<>>, <<>>, "", NoInput, <<>>)
SendSuccess(res)              == Ev("success", "", <<>>, <<>>, res, "", NoInput, <<>>)
SendError(msg, err)           ==
    Ev("error", "", msg, IF err = <<>> THEN msg ELSE err, <<>>, "", NoInput, <<>>)

\* main.py websocket_endpoint, body of the async for: every event is
\* forwarded and the loop never breaks
WsMainHandle(ev) ==
    [out |-> (IF ev.type = "tool_use"
              THEN <<Msg("file_generation", <<"Generating">>)>> ELSE <<>>) \o <<ev>>,
     brk |-> FALSE]

\* fallback blocks that send nothing for a failed result
FallbackMessagesSilent(fb) ==
    <<Msg("progress", <<"Processing your request...">>)>>
    \o (IF fb.success THEN <<SendSuccess(fb.message)>> ELSE <<>>)

\* the two fallback blocks of stream_claude_response
FallbackMessages(fb) ==
    <<Msg("progress", <<"Processing your request...">>),
      IF fb.success THEN SendSuccess(fb.message) ELSE Msg("error", fb.message)>>

\* ClaudeService.stream_claude_response, body of the async for
WsServiceHandle(ev, fb) ==
    IF ev.type = "verbose" THEN [out |-> <<Msg("progress", ev.message)>>, brk |-> FALSE]
    ELSE IF ev.type = "text" THEN [out |-> <<SendText(ev.message)>>, brk |-> FALSE]
    ELSE IF ev.type = "success" THEN [out |-> <<SendSuccess(ev.result)>>, brk |-> TRUE]
    ELSE IF ev.type = "error" THEN
        [out |-> <<Ev("error", "", ev.message, ev.error, <<>>, "", NoInput, <<>>)>>,
         brk |-> TRUE]
    ELSE IF ev.type = "fallback_required" THEN [out |-> FallbackMessages(fb), brk |-> TRUE]
    ELSE IF ev.type = "raw" THEN [out |-> <<>>, brk |-> FALSE]
    ELSE [out |-> <<ev>>, brk |-> FALSE]

\* routes.py process_chat_with_sse, body of the async for: the events
\* published with sse_manager
SseHandle(ev) ==
    IF ev.type = "verbose" THEN
        [out |-> <<SendVerbose(ev.message, ev.subtype, ev.tool_name, ev.tool_input)>>,
         brk |-> FALSE]
    ELSE IF ev.type = "text" THEN [out |-> <<SendText(ev.message)>>, brk |-> FALSE]
    ELSE IF ev.type = "success" THEN [out |-> <<SendSuccess(ev.result)>>, brk |-> TRUE]
    ELSE IF ev.type = "error" THEN [out |-> <<SendError(ev.message, ev.error)>>, brk |-> TRUE]
    ELSE [out |-> <<>>, brk |-> FALSE]

Handle(p, ev, fb) ==
    IF p = "ws_main" THEN WsMainHandle(ev)
    ELSE IF p = "ws_service" THEN WsServiceHandle(ev, fb)
    ELSE SseHandle(ev)

\* The generator hands evs to the consumer one at a time; it is not resumed
\* once the consumer has left its loop.
RECURSIVE Deliver(_, _, _)
Deliver(p, evs, fb) ==
    IF evs = <<>> THEN [yld |-> <<>>, out |-> <<>>, brk |-> FALSE]
    ELSE LET h == Handle(p, Head(evs), fb) IN
         IF h.brk THEN [yld |-> <<Head(evs)>>, out |-> h.out, brk |-> TRUE]
         ELSE LET r == Deliver(p, Tail(evs), fb) IN
              [yld |-> <<Head(evs)>> \o r.yld, out |-> h.out \o r.out, brk |-> r.brk]

\* what the consumer sends once its loop is over (send_file_list_update)
Finish(p) == IF p = "sse" THEN <<>> ELSE <<Msg("files_updated", <<>>)>>

\* the handler's own except-branch, for an exception raised before the loop
HandlerExcept(p, kind, fb) ==
    IF p = "sse" THEN <<SendError(<<"Processing error: ", kind>>, <<>>)>>
    ELSE IF p = "ws_service" THEN
        IF kind = "sepchunk" THEN FallbackMessages(fb)
        ELSE <<Msg("error", <<"Error processing request: ", kind>>)>>
    ELSE <<Msg("error", <<"Error processing request: ", kind>>)>>

----------------------------------------------------------------------------
(* The SSE hub: SSEManager and create_sse_stream.event_stream *)

Sessions == {"s1"}
Subs == {1, 2}
Execs == {1, 2}

\* the dict put on the queue by send_event; origin is not part of the dict:
\* it records who published the event (src, exec), the index of the yield
\* it came from (n) and the publication number (id)
HubEvent(ev, origin) == [type |-> ev.type, data |-> ev, origin |-> origin]

\* SSEManager.add_client on the hub state h = [as, qs, np, lz]
AddClient(h, sid) ==
    IF h.as[sid] = 0
    THEN [h EXCEPT !.qs = Append(h.qs, <<>>), !.as[sid] = Len(h.qs) + 1]
    ELSE h

\* SSEManager.remove_client
RemoveClient(h, sid) == IF h.as[sid] # 0 THEN [h EXCEPT !.as[sid] = 0] ELSE h

\* asyncio.Queue() is created without maxsize: 0, no bound
QueueMaxsize == 0

\* a queue that is full as soon as it holds one event (maxsize 1)
QueueFullAtOne(q) == Len(q) >= 1

\* Queue.full(): a put on a full queue waits for a get
QueueFull(q) == QueueMaxsize > 0 /\ Len(q) >= QueueMaxsize

\* a last-in first-out queue (asyncio.LifoQueue) in place of asyncio.Queue
QueuePutLifo(q, event) == <<event>> \o q

\* put on the asyncio.Queue created by add_client: unbounded, first-in
\* first-out
QueuePut(q, event) == Append(q, event)

\* SSEManager.send_event
SendEvent(h, sid, ev, src) ==
    LET h1 == IF h.as[sid] # 0 THEN h ELSE AddClient(h, sid)
        event == HubEvent(ev, [src |-> src.src, exec |-> src.exec, n |-> src.n,
                               id |-> h.np + 1])
    IN [h1 EXCEPT !.qs[h1.as[sid]] = QueuePut(@, event), !.np = @ + 1,
                  !.lz[sid] = IF h.as[sid] = 0 THEN <<event>>
                              ELSE IF @ # <<>> THEN Append(@, event) ELSE @]

RECURSIVE SendAll(_, _, _, _)
SendAll(h, sid, evs, src) ==
    IF evs = <<>> THEN h
    ELSE SendAll(SendEvent(h, sid, Head(evs), src), sid, Tail(evs), src)

\* a queue object that neither active_streams nor an attached subscriber
\* refers to is garbage: its content is dropped
Collect(qs, as, sb) ==
    [q \in DOMAIN qs |->
        IF \/ \E sid \in Sessions : as[sid] = q
           \/ \E s \in Subs : sb[s].pc = "attached" /\ sb[s].queue = q
        THEN qs[q] ELSE <<>>]

Hub == [as |-> active_streams, qs |-> queues, np |-> npub, lz |-> lazy]

SetHub(h) ==
    /\ active_streams' = h.as
    /\ queues' = h.qs
    /\ npub' = h.np
    /\ lazy' = h.lz

Connected == [type |-> "connected", data |-> Msg("connected", <<"SSE Connected">>),
              origin |-> [src |-> "stream", exec |-> 0, n |-> 0, id |-> 0]]
Ping      == [type |-> "ping", data |-> Msg("ping", <<>>),
              origin |-> [src |-> "stream", exec |-> 0, n |-> 0, id |-> 0]]

\* an event_stream that yields no connected event when it starts
SubAttachSilent(s, sid) ==
    /\ subs[s].pc = "idle"
    /\ \A t \in Subs : t < s => subs[t].pc # "idle"
    /\ LET h == AddClient(Hub, sid) IN
       /\ SetHub([h EXCEPT !.lz[sid] = <<>>])
       /\ subs' = [subs EXCEPT ![s] = [pc |-> "attached", sid |-> sid,
                                       queue |-> h.as[sid], recv |-> <<>>,
                                       since |-> npub, pings |-> 0]]
    /\ UNCHANGED <<execs, monitors, pending, nfs, workspace>>
    /\ UNCHANGED avars
    /\ UNCHANGED fvars
    /\ UNCHANGED xvars

\* event_stream up to its first yield: add_client, then the connected event
SubAttach(s, sid) ==
    /\ subs[s].pc = "idle"
    /\ \A t \in Subs : t < s => subs[t].pc # "idle"
    /\ LET h == AddClient(Hub, sid) IN
       /\ SetHub([h EXCEPT !.lz[sid] = <<>>])
       /\ subs' = [subs EXCEPT ![s] = [pc |-> "attached", sid |-> sid,
                                       queue |-> h.as[sid], recv |-> <<Connected>>,
                                       since |-> npub, pings |-> 0]]
    /\ UNCHANGED <<execs, monitors, pending, nfs, workspace>>
    /\ UNCHANGED avars
    /\ UNCHANGED fvars
    /\ UNCHANGED xvars

\* queue.get() returns within the timeout
SubReceive(s) ==
    /\ subs[s].pc = "attached"
    /\ queues[subs[s].queue] # <<>>
    /\ subs' = [subs EXCEPT ![s].recv = Append(@, Head(queues[subs[s].queue]))]
    /\ queues' = [queues EXCEPT ![subs[s].queue] = Tail(@)]
    /\ UNCHANGED <<active_streams, execs, monitors, pending, npub, nfs, lazy, workspace>>
    /\ UNCHANGED avars
    /\ UNCHANGED fvars
    /\ UNCHANGED xvars

\* a stream that ends after its first ping
SubPingClose(s) ==
    /\ subs[s].pc = "attached"
    /\ queues[subs[s].queue] = <<>>
    /\ subs[s].pings < MaxPings
    /\ subs' = [subs EXCEPT ![s].recv = Append(@, Ping), ![s].pings = @ + 1,
                            ![s].pc = "closed"]
    /\ LET h == RemoveClient(Hub, subs[s].sid) IN
       SetHub([h EXCEPT !.qs = Collect(h.qs, h.as, subs')])
    /\ UNCHANGED <<execs, monitors, pending, nfs, workspace>>
    /\ UNCHANGED avars
    /\ UNCHANGED fvars
    /\ UNCHANGED xvars

\* wait_for times out: keep-alive ping
SubPing(s) ==
    /\ subs[s].pc = "attached"
    /\ queues[subs[s].queue] = <<>>
    /\ subs[s].pings < MaxPings
    /\ subs' = [subs EXCEPT ![s].recv = Append(@, Ping), ![s].pings = @ + 1]
    /\ UNCHANGED <<active_streams, queues, execs, monitors, pending, npub, nfs, lazy, workspace>>
    /\ UNCHANGED avars
    /\ UNCHANGED fvars
    /\ UNCHANGED xvars

\* request.is_disconnected(): leave the loop, remove_client in the finally
SubDisconnect(s) ==
    /\ subs[s].pc = "attached"
    /\ subs' = [subs EXCEPT ![s].pc = "closed", ![s].recv = <<>>]
    /\ LET h == RemoveClient(Hub, subs[s].sid) IN
       SetHub([h EXCEPT !.qs = Collect(h.qs, h.as, subs')])
    /\ UNCHANGED <<execs, monitors, pending, nfs, workspace>>
    /\ UNCHANGED avars
    /\ UNCHANGED fvars
    /\ UNCHANGED xvars

----------------------------------------------------------------------------
(* process_chat_with_sse and the file watcher *)

\* events the generator can yield to process_chat_with_sse
HubLines == {LsLine, DoneLine}

Range(f) == {f[i] : i \in DOMAIN f}

StreamData == UNION {Range(ParseLine(l).events) : l \in HubLines}

\* FileStructureService.start_monitoring: keeps an existing monitor
\* a start_monitoring that replaces the monitor of the session
StartMonitoringReplace(m, sid, e) == [m EXCEPT ![sid] = e]

\* FileStructureService.start_monitoring: the monitor of execution e, unless
\* the session has one
StartMonitoring(m, sid, e) == IF m[sid] # 0 THEN m ELSE [m EXCEPT ![sid] = e]

\* a stop_monitoring that leaves the monitor registered
StopMonitoringNever(m, sid) == m

\* FileStructureService.stop_monitoring
StopMonitoring(m, sid) == IF m[sid] # 0 THEN [m EXCEPT ![sid] = 0] ELSE m

\* chat_with_sse creates the task; process_chat_with_sse up to the first
\* suspension of the generator
ExecStart(e, sid) ==
    /\ path = "sse"
    /\ execs[e].pc = "idle"
    /\ \A f \in Execs : f < e => execs[f].pc # "idle"
    /\ SetHub(SendEvent(Hub, sid,
                        SendVerbose(<<"Processing your request...">>, "user_input", "", NoInput),
                        [src |-> "handler", exec |-> e, n |-> 0]))
    /\ monitors' = StartMonitoring(monitors, sid, e)
    /\ execs' = [execs EXCEPT ![e] = [pc |-> "streaming", sid |-> sid, n |-> 0,
                                      processing_active |-> TRUE]]
    /\ UNCHANGED <<subs, pending, nfs, workspace>>
    /\ UNCHANGED avars
    /\ UNCHANGED fvars
    /\ UNCHANGED xvars

\* one iteration of the async for over the generator
ExecStep(e, ev) ==
    /\ path = "sse"
    /\ execs[e].pc = "streaming"
    /\ execs[e].n < MaxYield
    /\ LET h == SseHandle(ev)
           sid == execs[e].sid
       IN /\ SetHub(SendAll(Hub, sid, h.out,
                            [src |-> "adapter", exec |-> e, n |-> execs[e].n + 1]))
          /\ execs' = [execs EXCEPT ![e].n = @ + 1,
                                    ![e].pc = IF h.brk THEN "done" ELSE @]
          /\ monitors' = IF h.brk THEN StopMonitoring(monitors, sid) ELSE monitors
    /\ UNCHANGED <<subs, pending, nfs, workspace>>
    /\ UNCHANGED avars
    /\ UNCHANGED fvars
    /\ UNCHANGED xvars

\* the generator is exhausted: the finally clause
ExecEnd(e) ==
    /\ path = "sse"
    /\ execs[e].pc = "streaming"
    /\ execs' = [execs EXCEPT ![e].pc = "done"]
    /\ monitors' = StopMonitoring(monitors, execs[e].sid)
    /\ UNCHANGED <<active_streams, queues, npub, subs, pending, nfs, lazy, workspace>>
    /\ UNCHANGED avars
    /\ UNCHANGED fvars
    /\ UNCHANGED xvars

FsKinds == {"created", "modified", "deleted"}

\* FileSystemMonitor.on_any_event on the observer thread, for a qualifying
\* event: the callback is scheduled on the loop
FsEvent(sid, kind) ==
    /\ monitors[sid] # 0
    /\ nfs < MaxFsEvents
    /\ nfs' = nfs + 1
    /\ pending' = Append(pending, [exec |-> monitors[sid], sid |-> sid, kind |-> kind,
                                   file |-> <<"b.txt">>, seq |-> nfs + 1])
    /\ UNCHANGED <<active_streams, queues, npub, subs, execs, monitors, lazy, workspace>>
    /\ UNCHANGED avars
    /\ UNCHANGED fvars
    /\ UNCHANGED xvars

\* the three re.sub calls of file_change_callback on a path given as its
\* pieces: every ".tmp.<digits>" piece goes, then a last piece that is a
\* dot and ten or more digits, then a last piece ".temp"
DropLast(file, piece) ==
    IF file # <<>> /\ file[Len(file)] = piece
    THEN SubSeq(file, 1, Len(file) - 1) ELSE file

CleanPath(file) ==
    DropLast(DropLast(SelectSeq(file, LAMBDA t : t # ".tmp.12345"), ".1756881179"),
             ".temp")

\* what file_change_callback publishes: the message names the cleaned
\* path, the list of new files of files_updated the path as it came
CallbackEvents(kind, file, active) ==
    (IF kind = "created" /\ active
     THEN <<SendVerbose(<<"Created ">> \o CleanPath(file), "file_created", "watchdog",
                        NoInput)>>
     ELSE <<>>)
    \o (IF kind \in {"created", "modified"}
        THEN <<Msg("files_updated", IF kind = "created" THEN file ELSE <<>>),
               Msg("directory_structure_updated", <<>>)>>
        ELSE <<>>)

\* a loop that runs the callback scheduled last
RunCallbackNewestFirst ==
    /\ path = "sse"
    /\ pending # <<>>
    /\ LET c == pending[Len(pending)] IN
       SetHub(SendAll(Hub, c.sid,
                      CallbackEvents(c.kind, c.file, execs[c.exec].processing_active),
                      [src |-> "watcher", exec |-> c.exec, n |-> c.seq]))
    /\ pending' = SubSeq(pending, 1, Len(pending) - 1)
    /\ UNCHANGED <<subs, execs, monitors, nfs, workspace>>
    /\ UNCHANGED avars
    /\ UNCHANGED fvars
    /\ UNCHANGED xvars

\* the loop runs the next scheduled file_change_callback (the handles of
\* call_soon_threadsafe run first in, first out; the task of a callback
\* never suspends, so it ends before the next one starts); seq, the number
\* of the file system event, is not part of the program
RunCallback ==
    /\ path = "sse"
    /\ pending # <<>>
    /\ LET c == Head(pending) IN
       SetHub(SendAll(Hub, c.sid,
                      CallbackEvents(c.kind, c.file, execs[c.exec].processing_active),
                      [src |-> "watcher", exec |-> c.exec, n |-> c.seq]))
    /\ pending' = Tail(pending)
    /\ UNCHANGED <<subs, execs, monitors, nfs, workspace>>
    /\ UNCHANGED avars
    /\ UNCHANGED fvars
    /\ UNCHANGED xvars

\* process_chat_with_sse raises before it starts the file monitoring: the
\* except-branch publishes the error, the finally clause stops the monitoring
\* registered for the session
ExecRaise(e, sid, kind) ==
    /\ path = "sse"
    /\ execs[e].pc = "idle"
    /\ \A f \in Execs : f < e => execs[f].pc # "idle"
    /\ SetHub(SendAll(Hub, sid,
                      <<SendVerbose(<<"Processing your request...">>, "user_input", "", NoInput),
                        SendError(<<"Processing error: ", kind>>, <<>>)>>,
                      [src |-> "handler", exec |-> e, n |-> 0]))
    /\ monitors' = StopMonitoring(monitors, sid)
    /\ execs' = [execs EXCEPT ![e] = [pc |-> "done", sid |-> sid, n |-> 0,
                                      processing_active |-> FALSE]]
    /\ UNCHANGED <<subs, pending, nfs, workspace>>
    /\ UNCHANGED avars
    /\ UNCHANGED fvars
    /\ UNCHANGED xvars

\* relative paths of files the agent may write into a session directory
FileNames == {<<"b.txt">>, <<"c", ".tmp.12345">>, <<".", "env">>}

\* a path with a part that starts with "."
Hidden(f) == Head(f) = "."

\* a file appears in the session directory; the observer thread calls
\* on_any_event, which schedules the callback unless the file is hidden
CreateFile(sid, f) ==
    /\ f \notin workspace[sid]
    /\ nfs < MaxCreates
    /\ nfs' = nfs + 1
    /\ workspace' = [workspace EXCEPT ![sid] = @ \cup {f}]
    /\ pending' = IF monitors[sid] # 0 /\ ~Hidden(f)
                  THEN Append(pending, [exec |-> monitors[sid], sid |-> sid,
                                        kind |-> "created", file |-> f,
                                        seq |-> nfs + 1])
                  ELSE pending
    /\ UNCHANGED <<active_streams, queues, npub, subs, execs, monitors, lazy>>
    /\ UNCHANGED avars
    /\ UNCHANGED fvars
    /\ UNCHANGED xvars

\* DELETE /sessions/{session_id}: FileService.clear_session removes the
\* session directory and nothing else
ClearSession(sid) ==
    /\ workspace[sid] # {}
    /\ workspace' = [workspace EXCEPT ![sid] = {}]
    /\ UNCHANGED <<active_streams, queues, npub, subs, execs, monitors, pending, nfs, lazy>>
    /\ UNCHANGED avars
    /\ UNCHANGED fvars
    /\ UNCHANGED xvars

\* the files_updated message of send_file_list_update
FilesUpdated(files) == [type |-> "files_updated", files |-> files]

\* the listing sent: main.py lists every file, FileService.list_session_files
\* (get_flat_file_list) leaves out hidden ones
ListFiles(p, files) == IF p = "ws_main" THEN files ELSE {f \in files : ~Hidden(f)}

\* a monitor_files that sends whenever the snapshot differs from the
\* baseline and takes the snapshot as the new baseline
MonitorPollSnapshot(sid) ==
    /\ mon.pc = "running"
    /\ LET current_files == workspace[sid]
       IN /\ current_files # mon.initial_files
          /\ client' = Append(client, FilesUpdated(ListFiles(path, current_files)))
          /\ mon' = [mon EXCEPT !.initial_files = current_files]
    /\ UNCHANGED <<path, apc, lines, yielded, rc, stderr, prev>>
    /\ UNCHANGED hvars
    /\ UNCHANGED fvars
    /\ UNCHANGED xvars

\* monitor_files wakes up from its sleep and finds new files
MonitorPoll(sid) ==
    /\ mon.pc = "running"
    /\ LET current_files == workspace[sid]
           new_files == current_files \ mon.initial_files
       IN /\ new_files # {}
          /\ client' = Append(client, FilesUpdated(ListFiles(path, current_files)))
          /\ mon' = [mon EXCEPT !.initial_files = @ \cup new_files]
    /\ UNCHANGED <<path, apc, lines, yielded, rc, stderr, prev>>
    /\ UNCHANGED hvars
    /\ UNCHANGED fvars
    /\ UNCHANGED xvars

\* the snapshot of monitor_files raises an OSError (a file whose directory
\* cannot be searched): the try statement encloses the while loop, so the
\* except-branch prints the error and the task ends
MonitorFail ==
    /\ mon.pc = "running"
    /\ mon' = [mon EXCEPT !.pc = "failed"]
    /\ UNCHANGED <<path, apc, lines, yielded, rc, stderr, client, prev>>
    /\ UNCHANGED hvars
    /\ UNCHANGED fvars
    /\ UNCHANGED xvars

InitHub ==
    /\ active_streams = [sid \in Sessions |-> 0]
    /\ queues = <<>>
    /\ subs = [s \in Subs |-> [pc |-> "idle", sid |-> "", queue |-> 0, recv |-> <<>>,
                               since |-> 0, pings |-> 0]]
    /\ execs = [e \in Execs |-> [pc |-> "idle", sid |-> "", n |-> 0,
                                 processing_active |-> FALSE]]
    /\ monitors = [sid \in Sessions |-> 0]
    /\ pending = <<>>
    /\ npub = 0
    /\ nfs = 0
    /\ lazy = [sid \in Sessions |-> <<>>]
    /\ workspace = [sid \in Sessions |-> {}]

\* one execution with its file watcher, one subscriber
NextHub ==
    \/ \E sid \in Sessions : SubAttach(1, sid)
    \/ SubReceive(1)
    \/ SubPing(1)
    \/ SubDisconnect(1)
    \/ \E sid \in Sessions : ExecStart(1, sid)
    \/ \E ev \in StreamData : ExecStep(1, ev)
    \/ ExecEnd(1)
    \/ \E sid \in Sessions, kind \in FsKinds : FsEvent(sid, kind)
    \/ RunCallback

\* one execution, two subscribers of its session
NextFanout ==
    \/ \E s \in Subs, sid \in Sessions : SubAttach(s, sid)
    \/ \E s \in Subs : SubReceive(s)
    \/ \E s \in Subs : SubDisconnect(s)
    \/ \E sid \in Sessions : ExecStart(1, sid)
    \/ \E ev \in StreamData : ExecStep(1, ev)
    \/ ExecEnd(1)

\* two chat_with_sse requests, no subscriber
NextChat ==
    \/ \E e \in Execs, sid \in Sessions : ExecStart(e, sid)
    \/ \E e \in Execs, ev \in StreamData : ExecStep(e, ev)
    \/ \E e \in Execs : ExecEnd(e)
    \/ \E sid \in Sessions, kind \in FsKinds : FsEvent(sid, kind)
    \/ RunCallback

----------------------------------------------------------------------------
(* One execution of the adapter under one consumer *)

\* the task created for monitor_files / monitor_files_during_execution with
\* the snapshot initial_files; process_chat_with_sse creates none
NewMonitor(p, files) ==
    [pc |-> IF p = "sse" THEN "none" ELSE "running", initial_files |-> files]

\* monitor_task.cancel() and await monitor_task in the finally clause
CancelMonitor(m) == IF m.pc = "running" THEN [m EXCEPT !.pc = "cancelled"] ELSE m

NoExecution == [run |-> 0, lines |-> <<>>, rc |-> -1, stderr |-> <<>>, yielded |-> <<>>]

\* a generator that goes on from what the call before it had yielded
NewExecutionResumed(old) ==
    [apc |-> "reading", lines |-> <<>>, yielded |-> old.yielded, rc |-> -1, stderr |-> <<>>]

\* a call of execute_claude_code_streaming starts from fresh locals (process,
\* message_count), whatever the call before it (old) has left
NewExecution(old) ==
    [apc |-> "reading", lines |-> <<>>, yielded |-> <<>>, rc |-> -1, stderr |-> <<>>]

ExitCodes == {0, 1}
Stderrs == {<<>>, <<"boom">>, <<" ", "boom", "\n">>, <<"\n">>}

InitAdapter ==
    /\ path \in Paths
    /\ apc = "reading"
    /\ lines = <<>>
    /\ yielded = <<>>
    /\ rc = -1
    /\ stderr = <<>>
    /\ client = <<>>
    /\ mon = NewMonitor(path, {})
    /\ prev = NoExecution

\* the generator yields evs and then, unless the consumer broke out, goes to
\* position next
Yield(evs, next, fb) ==
    LET d == Deliver(path, evs, fb)
        over == d.brk \/ next = "done"
    IN /\ yielded' = yielded \o d.yld
       /\ client' = client \o d.out \o (IF over THEN Finish(path) ELSE <<>>)
       /\ apc' = IF d.brk THEN "closed" ELSE next
       /\ mon' = IF over THEN CancelMonitor(mon) ELSE mon

\* readline returns a line
ReadLine(line, fb) ==
    /\ apc = "reading"
    /\ Len(lines) < MaxLines
    /\ prev.run = 0 \/ (Len(lines) < Len(prev.lines) /\ line = prev.lines[Len(lines) + 1])
    /\ lines' = lines \o <<line>>
    /\ LET p == ParseLine(line) IN
       IF p.exc THEN Yield(p.events \o <<ExceptionEvent("other")>>, "done", fb)
       ELSE Yield(p.events, IF p.stop THEN "waiting" ELSE "reading", fb)
    /\ UNCHANGED <<path, rc, stderr, prev>>
    /\ UNCHANGED hvars
    /\ UNCHANGED fvars
    /\ UNCHANGED xvars

\* readline returns b'' (end of stdout)
Eof ==
    /\ apc = "reading"
    /\ prev.run = 0 \/ Len(lines) = Len(prev.lines)
    /\ apc' = "waiting"
    /\ UNCHANGED <<path, lines, yielded, rc, stderr, client, mon, prev>>
    /\ UNCHANGED hvars
    /\ UNCHANGED fvars
    /\ UNCHANGED xvars

\* readline (or the subprocess start) raises
ReadRaise(kind, fb) ==
    /\ apc = "reading"
    /\ Yield(<<ExceptionEvent(kind)>>, "done", fb)
    /\ UNCHANGED <<path, lines, rc, stderr, prev>>
    /\ UNCHANGED hvars
    /\ UNCHANGED fvars
    /\ UNCHANGED xvars

\* process.wait() returns c, with se on standard error
ProcessExit(c, se, fb) ==
    /\ apc = "waiting"
    /\ prev.run = 0 \/ (c = prev.rc /\ se = prev.stderr)
    /\ rc' = c
    /\ stderr' = se
    /\ Yield(ExitEvents(c, se), "done", fb)
    /\ UNCHANGED <<path, lines, prev>>
    /\ UNCHANGED hvars
    /\ UNCHANGED fvars
    /\ UNCHANGED xvars

\* the handler raises while the generator is suspended (a send to the client
\* fails): the finally clause of the loop, then the handler's except-branch
HandlerRaise(kind, fb) ==
    /\ apc = "reading"
    /\ apc' = "failed"
    /\ mon' = CancelMonitor(mon)
    /\ client' = client \o HandlerExcept(path, kind, fb)
    /\ UNCHANGED <<path, lines, yielded, rc, stderr, prev>>
    /\ UNCHANGED hvars
    /\ UNCHANGED fvars
    /\ UNCHANGED xvars

\* the execution is over; the next request starts a second one, which is
\* fed the stdout lines, exit code and standard error of the first
Restart ==
    /\ apc \in {"done", "closed"}
    /\ prev.run = 0
    /\ prev' = [run |-> 1, lines |-> lines, rc |-> rc, stderr |-> stderr, yielded |-> yielded]
    /\ LET new == NewExecution(prev') IN
       /\ apc' = new.apc
       /\ lines' = new.lines
       /\ yielded' = new.yielded
       /\ rc' = new.rc
       /\ stderr' = new.stderr
    /\ client' = <<>>
    /\ mon' = NewMonitor(path, {})
    /\ UNCHANGED path
    /\ UNCHANGED hvars
    /\ UNCHANGED fvars
    /\ UNCHANGED xvars

\* two executions in a row on the same lines
NextReplay ==
    \/ \E line \in Lines, fb \in FallbackResults : ReadLine(line, fb)
    \/ Eof
    \/ \E c \in ExitCodes, se \in Stderrs, fb \in FallbackResults : ProcessExit(c, se, fb)
    \/ Restart

NextAdapter ==
    \/ \E line \in Lines, fb \in FallbackResults : ReadLine(line, fb)
    \/ Eof
    \/ \E kind \in ExcKinds, fb \in FallbackResults : ReadRaise(kind, fb)
    \/ \E c \in ExitCodes, se \in Stderrs, fb \in FallbackResults : ProcessExit(c, se, fb)
    \/ \E kind \in ExcKinds, fb \in FallbackResults : HandlerRaise(kind, fb)

----------------------------------------------------------------------------
(* FileService.get_file_content and the get_file_content route of main.py *)

\* A name is a tuple of characters, a path a tuple of names (from the root),
\* the string form of a path its names joined with "/".
A   == <<"a">>
AB  == <<"a", "b">>
F   == <<"f">>
L   == <<"l">>
U   == <<"u">>
E   == <<"e">>
Up  == <<".", ".">>

UPLOAD_DIR == <<U>>

\* the session directories /u/a and /u/ab, a file f in each, a file /u/f
\* next to them and a symbolic link /u/a/l to the directory /e holding /e/f
Dirs     == {<<>>, <<U>>, <<U, A>>, <<U, AB>>, <<E>>}
Files    == {<<U, A, F>>, <<U, AB, F>>, <<U, F>>, <<E, F>>}
Symlinks == {<<U, A, L>>}
LinkTarget(p) == <<E>>

SessionIds == {A, AB}
PathNames  == {A, AB, F, L, Up}

RECURSIVE Flatten(_)
Flatten(p) == IF p = <<>> THEN <<>> ELSE <<"/">> \o Head(p) \o Flatten(Tail(p))

\* str(path) of an absolute path
Str(p) == IF p = <<>> THEN <<"/">> ELSE Flatten(p)

\* str.startswith
StartsWith(str, prefix) ==
    /\ Len(prefix) <= Len(str)
    /\ SubSeq(str, 1, Len(prefix)) = prefix

\* Path.resolve(): ".." removes the last name, a symbolic link is replaced
\* by its target; done holds the names resolved so far
RECURSIVE ResolveFrom(_, _)
ResolveFrom(done, rest) ==
    IF rest = <<>> THEN done
    ELSE IF Head(rest) = Up
         THEN ResolveFrom(IF done = <<>> THEN <<>> ELSE SubSeq(done, 1, Len(done) - 1),
                          Tail(rest))
         ELSE LET next == Append(done, Head(rest)) IN
              ResolveFrom(IF next \in Symlinks THEN LinkTarget(next) ELSE next, Tail(rest))

Resolve(p) == ResolveFrom(<<>>, p)

\* session_dir / file_path: an absolute file_path replaces session_dir
Join(dir, req) == IF req.abs THEN req.parts ELSE dir \o req.parts

\* Path.exists() and Path.read_text() follow symbolic links
Exists(p) == Resolve(p) \in Dirs \cup Files

\* p lies inside (or is) directory d
Inside(p, d) == Len(d) <= Len(p) /\ SubSeq(p, 1, Len(d)) = d

FileResult(ep, sid, req, st, ops, read) ==
    [endpoint |-> ep, sid |-> sid, req |-> req, status |-> st, ops |-> ops, read |-> read]

\* get_file_content with the existence check made before the security check
ServiceGetFileContentExistsFirst(sid, req) ==
    LET session_dir == UPLOAD_DIR \o <<sid>>
        full_file_path == Join(session_dir, req)
    IN IF ~Exists(full_file_path)
       THEN FileResult("service", sid, req, 404, <<"exists">>, <<>>)
       ELSE IF ~StartsWith(Str(Resolve(full_file_path)), Str(Resolve(session_dir)))
       THEN FileResult("service", sid, req, 403, <<"exists">>, <<>>)
       ELSE IF Resolve(full_file_path) \in Files
       THEN FileResult("service", sid, req, 200, <<"exists", "read">>, Resolve(full_file_path))
       ELSE FileResult("service", sid, req, 500, <<"exists", "read">>, <<>>)

\* FileService.get_file_content: the status of the response, the file
\* system operations made after the security check and the file read
ServiceGetFileContent(sid, req) ==
    LET session_dir == UPLOAD_DIR \o <<sid>>
        full_file_path == Join(session_dir, req)
    IN IF ~StartsWith(Str(Resolve(full_file_path)), Str(Resolve(session_dir)))
       THEN FileResult("service", sid, req, 403, <<>>, <<>>)
       ELSE IF ~Exists(full_file_path)
       THEN FileResult("service", sid, req, 404, <<"exists">>, <<>>)
       ELSE IF Resolve(full_file_path) \in Files
       THEN FileResult("service", sid, req, 200, <<"exists", "read">>, Resolve(full_file_path))
       ELSE FileResult("service", sid, req, 500, <<"exists", "read">>, <<>>)

\* main.py get_file_content: the paths are compared unresolved, and the
\* HTTPException raised in the try block is turned into a 500
MainGetFileContent(sid, req) ==
    LET session_dir == UPLOAD_DIR \o <<sid>>
        full_file_path == Join(session_dir, req)
    IN IF ~StartsWith(Str(full_file_path), Str(session_dir))
       THEN FileResult("main", sid, req, 500, <<>>, <<>>)
       ELSE IF ~Exists(full_file_path)
       THEN FileResult("main", sid, req, 500, <<"exists">>, <<>>)
       ELSE IF Resolve(full_file_path) \in Files
       THEN FileResult("main", sid, req, 200, <<"exists", "read">>, Resolve(full_file_path))
       ELSE FileResult("main", sid, req, 500, <<"exists", "read">>, <<>>)

RECURSIVE SeqsUpTo(_, _)
SeqsUpTo(S, n) ==
    IF n = 0 THEN {<<>>}
    ELSE LET shorter == SeqsUpTo(S, n - 1) IN
         shorter \cup {Append(q, x) : q \in shorter, x \in S}

Requests == [abs : BOOLEAN, parts : SeqsUpTo(PathNames, MaxPathLen)]

NoRequest == FileResult("", <<>>, [abs |-> FALSE, parts |-> <<>>], 0, <<>>, <<>>)

InitFiles == fres = NoRequest

\* GET /sessions/{session_id}/files/{file_path} served by routes.py
GetFileContent(sid, req) ==
    /\ fres = NoRequest
    /\ fres' = ServiceGetFileContent(sid, req)
    /\ UNCHANGED avars
    /\ UNCHANGED hvars
    /\ UNCHANGED xvars

\* the same request served by main.py
GetFileContentMain(sid, req) ==
    /\ fres = NoRequest
    /\ fres' = MainGetFileContent(sid, req)
    /\ UNCHANGED avars
    /\ UNCHANGED hvars
    /\ UNCHANGED xvars

NextFiles ==
    \/ \E sid \in SessionIds, req \in Requests : GetFileContent(sid, req)
    \/ \E sid \in SessionIds, req \in Requests : GetFileContentMain(sid, req)

----------------------------------------------------------------------------
(* FileSystemMonitor.on_any_event *)

\* the directory watched for a session, in the file system above
WatchedDir(sid) == UPLOAD_DIR \o <<A>>

\* paths of the events the observer may deliver: a file, a file in a
\* subdirectory, one under a hidden directory, a "~" file, a swap and a lock
\* file, a file behind the symbolic link l, a file of the sibling directory
EventPaths ==
    {<<U, A, F>>, <<U, A, AB, F>>, <<U, A, <<".", "g">>, F>>, <<U, A, <<"~", "f">>>>,
     <<U, A, <<"f", ".swp">>>>, <<U, A, <<"f", ".lock">>>>, <<U, A, L, F>>, <<U, AB, F>>}

OsEvents == [is_directory : BOOLEAN, src_path : EventPaths, event_type : FsKinds]

\* an on_any_event that tests the path of the event as it is, unresolved
OnAnyEventUnresolved(session_dir, event) ==
    LET parts == event.src_path
        filename == parts[Len(parts)]
    IN IF event.is_directory THEN [scheduled |-> FALSE, relative_path |-> <<>>]
       ELSE IF \/ \E i \in 1..Len(parts) : Head(parts[i]) \in {".", "~"}
               \/ filename[Len(filename)] \in {".swp", ".lock"}
       THEN [scheduled |-> FALSE, relative_path |-> <<>>]
       ELSE IF ~Inside(parts, session_dir)
            THEN [scheduled |-> FALSE, relative_path |-> <<>>]
            ELSE [scheduled |-> TRUE,
                  relative_path |-> SubSeq(parts, Len(session_dir) + 1, Len(parts))]

\* on_any_event: whether the callback is scheduled, and with which path
\* (relative_to raises ValueError for a path outside session_path)
OnAnyEvent(session_dir, event) ==
    LET parts == event.src_path
        filename == parts[Len(parts)]
    IN IF event.is_directory THEN [scheduled |-> FALSE, relative_path |-> <<>>]
       ELSE IF \/ \E i \in 1..Len(parts) : Head(parts[i]) \in {".", "~"}
               \/ Head(filename) \in {".", "~"}
               \/ filename[Len(filename)] \in {".swp", ".lock"}
       THEN [scheduled |-> FALSE, relative_path |-> <<>>]
       ELSE LET event_path == Resolve(parts)
                session_path == Resolve(session_dir)
            IN IF ~Inside(event_path, session_path)
               THEN [scheduled |-> FALSE, relative_path |-> <<>>]
               ELSE [scheduled |-> TRUE,
                     relative_path |-> SubSeq(event_path, Len(session_path) + 1,
                                              Len(event_path))]

\* the observer thread delivers an event to the monitor of session sid; the
\* callback gets str(relative_path)
OsEvent(sid, event) ==
    /\ monitors[sid] # 0
    /\ nfs < MaxFsEvents
    /\ nfs' = nfs + 1
    /\ LET r == OnAnyEvent(WatchedDir(sid), event) IN
       pending' = IF r.scheduled
                  THEN Append(pending, [exec |-> monitors[sid], sid |-> sid,
                                        kind |-> event.event_type,
                                        file |-> Tail(Flatten(r.relative_path)),
                                        seq |-> nfs + 1])
                  ELSE pending
    /\ UNCHANGED <<active_streams, queues, npub, subs, execs, monitors, lazy, workspace>>
    /\ UNCHANGED avars
    /\ UNCHANGED fvars
    /\ UNCHANGED xvars

\* an execution of process_chat_with_sse and the events of the observer
NextFilter ==
    \/ \E sid \in Sessions : ExecStart(1, sid)
    \/ \E ev \in StreamData : ExecStep(1, ev)
    \/ ExecEnd(1)
    \/ \E sid \in Sessions, event \in OsEvents : OsEvent(sid, event)
    \/ RunCallback

----------------------------------------------------------------------------
(* ClaudeService over ClaudeCodeAgent: the calls that use the SDK client *)

Calls == 1..MaxCalls

\* how client.receive_response() ends: with a ResultMessage, with a
\* ResultMessage whose is_error is set, without any ResultMessage, or with
\* an exception
Outcomes == {"result", "error_result", "no_result", "exception"}

\* result_data of execute_claude_code: error is set in the except-branch
\* only, result when a ResultMessage came (its is_error is not looked at)
ExecuteClaudeCode(outcome) ==
    IF outcome = "exception" THEN [result |-> "None", error |-> "exception"]
    ELSE IF outcome \in {"result", "error_result"}
         THEN [result |-> "text", error |-> "None"]
         ELSE [result |-> "None", error |-> "None"]

\* the dict process_chat_message and resume_session return for result_data
ProcessReturn(rd) ==
    [success |-> rd.error = "None",
     message |-> IF rd.error = "None" THEN rd.result ELSE rd.error]

NoCall == [pc |-> "idle", kind |-> "", sid |-> "", agent |-> 0, client |-> 0,
           cfg |-> FALSE, ret |-> [success |-> FALSE, message |-> "None"]]

InitSdk ==
    /\ active_workflows = [sid \in Sessions |-> 0]
    /\ agents = <<>>
    /\ clients = <<>>
    /\ calls = [c \in Calls |-> NoCall]

\* execute_claude_code up to its first suspension, on agent ag of ags
\* (cfg: mcp_config.json exists, the same for all calls):
\* _get_client returns the client of the agent, or reads mcp_config.json
\* when it exists (cfg), or creates the client and awaits connect()
ExecuteStart(c, kind, sid, ags, ag, cfg) ==
    IF ags[ag].client # 0
    THEN /\ calls' = [calls EXCEPT ![c] = [NoCall EXCEPT !.pc = "query", !.kind = kind, !.cfg = cfg,
                                            !.sid = sid, !.agent = ag,
                                            !.client = ags[ag].client]]
         /\ agents' = ags
         /\ clients' = clients
    ELSE IF cfg
    THEN /\ calls' = [calls EXCEPT ![c] = [NoCall EXCEPT !.pc = "config", !.kind = kind, !.cfg = cfg,
                                            !.sid = sid, !.agent = ag]]
         /\ agents' = ags
         /\ clients' = clients
    ELSE /\ calls' = [calls EXCEPT ![c] = [NoCall EXCEPT !.pc = "connect", !.kind = kind, !.cfg = cfg,
                                            !.sid = sid, !.agent = ag,
                                            !.client = Len(clients) + 1]]
         /\ agents' = [ags EXCEPT ![ag].client = Len(clients) + 1]
         /\ clients' = Append(clients, [connected |-> FALSE, agent |-> ag])

\* ClaudeService.process_chat_message: the workflow of the session, created
\* and registered when there is none, then continue_conversation
ProcessChatMessage(c, sid, cfg) ==
    /\ calls[c].pc = "idle"
    /\ \A d \in Calls : d < c => calls[d].pc # "idle" /\ calls[d].cfg = cfg
    /\ IF active_workflows[sid] = 0
       THEN /\ active_workflows' = [active_workflows EXCEPT ![sid] = Len(agents) + 1]
            /\ ExecuteStart(c, "chat", sid, Append(agents, [client |-> 0]),
                            Len(agents) + 1, cfg)
       ELSE /\ active_workflows' = active_workflows
            /\ ExecuteStart(c, "chat", sid, agents, active_workflows[sid], cfg)
    /\ UNCHANGED <<avars, hvars, fvars, mvars>>

\* ClaudeService.resume_session: a new workflow; its agent closes its client
\* (it has none) and executes; the workflow is stored when the call returns
ResumeSession(c, sid, cfg) ==
    /\ calls[c].pc = "idle"
    /\ \A d \in Calls : d < c => calls[d].pc # "idle" /\ calls[d].cfg = cfg
    /\ ExecuteStart(c, "resume", sid, Append(agents, [client |-> 0]), Len(agents) + 1, cfg)
    /\ UNCHANGED <<active_workflows, avars, hvars, fvars, mvars>>

\* _get_client after the read of mcp_config.json: the client is created and
\* assigned to the agent, whatever the agent holds by now
ConfigRead(c) ==
    /\ calls[c].pc = "config"
    /\ calls' = [calls EXCEPT ![c].pc = "connect", ![c].client = Len(clients) + 1]
    /\ agents' = [agents EXCEPT ![calls[c].agent].client = Len(clients) + 1]
    /\ clients' = Append(clients, [connected |-> FALSE, agent |-> calls[c].agent])
    /\ UNCHANGED <<active_workflows, avars, hvars, fvars, mvars>>

\* client.connect() returns
Connect(c) ==
    /\ calls[c].pc = "connect"
    /\ calls' = [calls EXCEPT ![c].pc = "query"]
    /\ clients' = [clients EXCEPT ![calls[c].client].connected = TRUE]
    /\ UNCHANGED <<active_workflows, agents, avars, hvars, fvars, mvars>>

\* the response ends (an exception may also come from connect()): the call
\* returns, and resume_session stores its workflow in place of the one the
\* session had
Respond(c, outcome) ==
    /\ \/ calls[c].pc = "query"
       \/ calls[c].pc = "connect" /\ outcome = "exception"
    /\ calls' = [calls EXCEPT ![c].pc = "done",
                              ![c].ret = ProcessReturn(ExecuteClaudeCode(outcome))]
    /\ active_workflows' = IF calls[c].kind = "resume"
                           THEN [active_workflows EXCEPT ![calls[c].sid] = calls[c].agent]
                           ELSE active_workflows
    /\ UNCHANGED <<agents, clients, avars, hvars, fvars, mvars>>

\* ClaudeService.cleanup_session, while no call uses the workflow:
\* workflow.cleanup() closes the agent (disconnect, client = None), then the
\* entry is deleted
CleanupSession(sid) ==
    /\ active_workflows[sid] # 0
    /\ LET ag == active_workflows[sid] IN
       /\ \A c \in Calls : calls[c].agent = ag => calls[c].pc = "done"
       /\ clients' = IF agents[ag].client # 0
                     THEN [clients EXCEPT ![agents[ag].client].connected = FALSE]
                     ELSE clients
       /\ agents' = [agents EXCEPT ![ag].client = 0]
    /\ active_workflows' = [active_workflows EXCEPT ![sid] = 0]
    /\ UNCHANGED <<calls, avars, hvars, fvars, mvars>>

NextSdk ==
    \/ \E c \in Calls, sid \in Sessions, cfg \in BOOLEAN : ProcessChatMessage(c, sid, cfg)
    \/ \E c \in Calls, sid \in Sessions, cfg \in BOOLEAN : ResumeSession(c, sid, cfg)
    \/ \E c \in Calls : ConfigRead(c)
    \/ \E c \in Calls : Connect(c)
    \/ \E c \in Calls, outcome \in Outcomes : Respond(c, outcome)
    \/ \E sid \in Sessions : CleanupSession(sid)

----------------------------------------------------------------------------
(* FileService: the migration run by the read-only queries *)

\* the length of a piece of a file name: H32 stands for 32 hexadecimal
\* characters, X32 for 32 characters that are not all hexadecimal
TokLen(t) == IF t \in {"H32", "X32"} THEN 32 ELSE IF t = "_" THEN 1 ELSE 5

\* len(filename)
RECURSIVE NameLen(_)
NameLen(name) == IF name = <<>> THEN 0 ELSE TokLen(Head(name)) + NameLen(Tail(name))

\* the pieces of name that start at index 32, if a piece starts there
From32(name) == {i \in 1..Len(name) : NameLen(SubSeq(name, 1, i - 1)) = 32}

\* len(filename) > 33 and filename[32] == '_'
HasUuidPrefixPattern(name) ==
    /\ NameLen(name) > 33
    /\ \E i \in From32(name) : name[i] = "_"

\* filename[33:]
OriginalName(name) ==
    LET i == CHOOSE j \in From32(name) : TRUE IN SubSeq(name, i + 1, Len(name))

\* the names files are uploaded under
UploadNames ==
    {<<"a.txt">>, <<"b.txt">>, <<"H32", "_", "a.txt">>, <<"X32", "_", "a.txt">>,
     <<"H32", "_", "b.txt">>, <<"H32", "_">>}

FileNamesOf(dir) == {f.name : f \in dir}

\* the orders in which rglob may list the files of dir
Orders(dir) ==
    {o \in [1..Cardinality(dir) -> FileNamesOf(dir)] :
        \A i, j \in 1..Cardinality(dir) : o[i] = o[j] => i = j}

\* every listing of up to MaxUploads files
Listings == UNION {[1..n -> UploadNames] : n \in 0..MaxUploads}

\* FileService.migrate_old_files over the listing order: a file whose name
\* has the pattern is renamed to the rest of its name unless that exists
RECURSIVE MigrateOldFiles(_, _)
MigrateOldFiles(dir, order) ==
    IF order = <<>> THEN dir
    ELSE LET filename == Head(order)
             file == CHOOSE f \in dir : f.name = filename
         IN IF /\ HasUuidPrefixPattern(filename)
               /\ OriginalName(filename) # <<>>
               /\ OriginalName(filename) \notin FileNamesOf(dir)
            THEN MigrateOldFiles((dir \ {file})
                                   \cup {[name |-> OriginalName(filename),
                                          content |-> file.content]},
                                 Tail(order))
            ELSE MigrateOldFiles(dir, Tail(order))

InitMigrate ==
    /\ session_files = {}
    /\ nup = 0

\* FileService.upload_files with one file: written under its own name, over
\* a file of that name
UploadFile(name) ==
    /\ nup < MaxUploads
    /\ nup' = nup + 1
    /\ session_files' = {f \in session_files : f.name # name}
                         \cup {[name |-> name, content |-> name]}
    /\ UNCHANGED <<avars, hvars, fvars, svars>>

\* list_session_files, get_session_directory_structure or
\* create_context_message: each runs migrate_old_files before it reads
FileQuery(order) ==
    /\ session_files # {}
    /\ order \in Orders(session_files)
    /\ session_files' = MigrateOldFiles(session_files, order)
    /\ UNCHANGED <<nup, avars, hvars, fvars, svars>>

NextMigrate ==
    \/ \E name \in UploadNames : UploadFile(name)
    \/ \E order \in Listings : FileQuery(order)

vars == <<path, apc, lines, yielded, rc, stderr, client, mon, prev,
          active_streams, queues, subs, execs, monitors, pending, npub, nfs,
          lazy, workspace, fres, active_workflows, agents, clients, calls,
          session_files, nup>>

\* the server after start-up, an execution about to be consumed on any path
Init == InitAdapter /\ InitHub /\ InitFiles /\ InitSdk /\ InitMigrate

\* the same, the execution being one started by chat_with_sse
InitSse == Init /\ path = "sse"

\* the generator consumed by a WebSocket handler
WsStream ==
    /\ path # "sse"
    /\ \/ \E line \in HubLines, fb \in FallbackResults : ReadLine(line, fb)
       \/ Eof
       \/ \E c \in ExitCodes, fb \in FallbackResults : ProcessExit(c, <<>>, fb)
       \/ \E fb \in FallbackResults : HandlerRaise("other", fb)

\* one execution while files are written into the session directory: on a
\* WebSocket path the adapter's generator with the polling task, on the SSE
\* path process_chat_with_sse with the watcher
NextWatch ==
    \/ WsStream
    \/ \E sid \in Sessions : MonitorPoll(sid)
    \/ MonitorFail
    \/ \E sid \in Sessions : ExecStart(1, sid)
    \/ \E sid \in Sessions : ExecRaise(1, sid, "other")
    \/ \E ev \in StreamData : ExecStep(1, ev)
    \/ ExecEnd(1)
    \/ RunCallback
    \/ \E sid \in Sessions, f \in FileNames : CreateFile(sid, f)
    \/ \E sid \in Sessions : ClearSession(sid)

SpecWatch == Init /\ [][NextWatch]_vars

SpecFilter == InitSse /\ [][NextFilter]_vars

SpecReplay == Init /\ [][NextReplay]_vars

\* one execution of the adapter, the hub at rest
SpecAdapter == Init /\ [][NextAdapter]_vars

\* the hub with its publishers and one subscriber
SpecHub == InitSse /\ [][NextHub]_vars

\* the hub with two subscribers of one session
SpecFanout == InitSse /\ [][NextFanout]_vars

\* the chat_with_sse endpoint called twice, the queue not yet read
SpecChat == InitSse /\ [][NextChat]_vars

\* requests for files of the session workspaces
SpecMigrate == InitSse /\ [][NextMigrate]_vars

SpecSdk == InitSse /\ [][NextSdk]_vars

SpecFiles == InitSse /\ [][NextFiles]_vars

Over == apc \in {"done", "closed", "failed"}

----------------------------------------------------------------------------
(* Claims about one execution *)

Terminals(seq) == {i \in 1..Len(seq) : IsTerminal(seq[i])}

\* a terminal event, if any, is the last element
TerminalLast(seq) == \A i \in Terminals(seq) : i = Len(seq)

\* the yielded events that websocket_endpoint has forwarded to its client
Forwarded(seq) == SelectSeq(seq, LAMBDA m : m.type \notin {"files_updated", "file_generation"})

\* C1: the sequence yielded by execute_claude_code_streaming holds at most
\* one terminal event (success or error) and nothing follows a terminal
\* event; the same holds for the events that a consumer forwarding every
\* yielded event (websocket_endpoint) has sent to its client.
C1_SingleTerminalLast ==
    /\ TerminalLast(yielded)
    /\ path = "ws_main" => TerminalLast(Forwarded(client))

\* C2: an execution run through process_chat_with_sse or
\* stream_claude_response that is over has delivered a success or error
\* event to the client.
C2_TerminalDelivered ==
    (path \in {"sse", "ws_service"} /\ Over) => Terminals(client) # {}

\* C3: when the adapter yielded fallback_required, the client was not sent
\* that event and, once the handler is over, has received exactly one
\* success or error event.
C3_FallbackResolved ==
    (/\ path \in {"sse", "ws_service"}
     /\ Over
     /\ \E i \in 1..Len(yielded) : yielded[i].type = "fallback_required")
    => /\ \A i \in 1..Len(client) : client[i].type # "fallback_required"
       /\ Cardinality(Terminals(client)) = 1

\* a non-empty line that is not a well-formed structured record
Malformed(line) ==
    /\ Strip(line.text) # <<>>
    /\ \/ line.json \in {"invalid", "nonobject"}
       \/ line.type = "assistant"
          /\ \E i \in 1..Len(line.content) : line.content[i].type = "nondict"

Passthrough(line) ==
    Ev("verbose", "output", Strip(line.text), <<"JSON parse error">>, <<>>, "", NoInput, <<>>)

\* C9: reading a malformed line makes the adapter yield exactly the
\* passthrough event (verbose, subtype output, carrying the line) and go on
\* reading; it raises nothing and does not end the execution.
C9_MalformedPassthrough ==
    [][(lines' # lines /\ Malformed(lines'[Len(lines')]))
        => /\ yielded' = yielded \o <<Passthrough(lines'[Len(lines')])>>
           /\ apc' = "reading"]_vars

ResultRead == \E i \in 1..Len(lines) :
    Strip(lines[i].text) # <<>> /\ lines[i].json = "object" /\ lines[i].type = "result"

\* C10: when the process has exited with a non-zero code and no result
\* record was read, the adapter has yielded exactly one error event, whose
\* detail is the captured standard-error text.
C10_ProcessFailureError ==
    (rc > 0 /\ ~ResultRead)
    => /\ Cardinality({i \in 1..Len(yielded) : yielded[i].type = "error"}) = 1
       /\ \A i \in 1..Len(yielded) :
            yielded[i].type = "error" => yielded[i].error = Strip(stderr)

----------------------------------------------------------------------------
(* Claims about the hub *)

\* C4: with two subscribers attached to one session, an event published
\* after both attached and received by one of them has been received by
\* the other too, or is still waiting in the other's queue.
C4_FanoutToBoth ==
    \A s \in Subs, t \in Subs :
        (/\ s # t
         /\ subs[s].pc = "attached" /\ subs[t].pc = "attached"
         /\ subs[s].sid = subs[t].sid)
        => \A i \in 1..Len(subs[t].recv) :
             LET x == subs[t].recv[i] IN
             x.origin.id > subs[s].since
             => \/ \E j \in 1..Len(subs[s].recv) : subs[s].recv[j] = x
                \/ \E j \in 1..Len(queues[subs[s].queue]) : queues[subs[s].queue][j] = x

FromAdapter(x, e) == x.origin.src = "adapter" /\ x.origin.exec = e

\* the yield indices grow along seq, for the events of execution e
YieldOrdered(seq, e) ==
    \A i \in 1..Len(seq), j \in 1..Len(seq) :
        (i < j /\ FromAdapter(seq[i], e) /\ FromAdapter(seq[j], e))
        => seq[i].origin.n < seq[j].origin.n

\* C5: the adapter's events that the subscriber has received, followed by
\* those still waiting in its queue, are in the order in which the
\* generator yielded them, whatever the file watcher published in between.
C5_YieldOrderKept ==
    \A s \in Subs, e \in Execs :
        subs[s].pc = "attached"
        => YieldOrdered(subs[s].recv \o queues[subs[s].queue], e)

\* the subscriber has received two events of the adapter and an event of
\* the file watcher between them
C5_Witness ==
    \E i \in 1..Len(subs[1].recv), j \in 1..Len(subs[1].recv), k \in 1..Len(subs[1].recv) :
        /\ i < j /\ j < k
        /\ FromAdapter(subs[1].recv[i], 1)
        /\ subs[1].recv[j].origin.src = "watcher"
        /\ FromAdapter(subs[1].recv[k], 1)

Running(sid) == {e \in Execs : execs[e].pc = "streaming" /\ execs[e].sid = sid}

\* C6: at most one execution of a session is in flight at a time.
C6_OneExecutionInFlight == \A sid \in Sessions : Cardinality(Running(sid)) <= 1

----------------------------------------------------------------------------
(* Claims about file access *)

SessionDir(sid) == UPLOAD_DIR \o <<sid>>

\* the request's resolved path, as a string, does not start with the
\* resolved session directory
OutsideByString(r) ==
    ~StartsWith(Str(Resolve(Join(SessionDir(r.sid), r.req))), Str(Resolve(SessionDir(r.sid))))

\* C7: FileService.get_file_content answers 403 to every request whose
\* resolved path, as a string, does not start with the string of the
\* resolved session directory, without an existence check or a read.
C7_DeniedBeforeAccess ==
    (fres.endpoint = "service" /\ OutsideByString(fres))
    => fres.status = 403 /\ fres.ops = <<>> /\ fres.read = <<>>

\* a request with a ".." component for a path that does not exist was denied
C7_Witness ==
    /\ fres.endpoint = "service"
    /\ OutsideByString(fres)
    /\ \E i \in 1..Len(fres.req.parts) : fres.req.parts[i] = Up
    /\ ~Exists(Join(SessionDir(fres.sid), fres.req))
    /\ fres.status = 403

\* C8: file content is returned only for a file that lies inside the
\* resolved workspace directory of the session of the request.
C8_ReadsStayInside ==
    fres.status = 200 => Inside(fres.read, Resolve(SessionDir(fres.sid)))

----------------------------------------------------------------------------
(* Claims about file watching and the life of an execution *)

\* the files_updated events among evs
Updates(evs) == SelectSeq(evs, LAMBDA x : x.type = "files_updated")

\* C11: a burst of file creations is reported by exactly one files_updated
\* event that names all of them: a poll of the WebSocket monitor that finds
\* new files sends one message listing all of them, and when the callback of
\* a created file has run on the SSE path, one files_updated event was
\* published and no callback for another file of the burst is left to run.
C11_OneUpdatePerBurst ==
    [][/\ mon'.initial_files # mon.initial_files
          => /\ Len(client') = Len(client) + 1
             /\ (mon'.initial_files \ mon.initial_files) \subseteq client'[Len(client')].files
       /\ (pending # <<>> /\ pending' = Tail(pending) /\ Head(pending).kind = "created")
          => /\ LET q == queues'[active_streams'[Head(pending).sid]] IN
                Len(Updates(SubSeq(q, Len(q) - (npub' - npub) + 1, Len(q)))) = 1
             /\ \A i \in 1..Len(pending') :
                  ~(pending'[i].kind = "created" /\ pending'[i].sid = Head(pending).sid)]_vars

\* C12: when an execution ends, by whatever path, its file watching is
\* released: when process_chat_with_sse is done no monitor is registered for
\* its session, and when a WebSocket handler is over its polling task is
\* not running any more.
C12_WatchReleased ==
    [][/\ \A e \in Execs :
            (execs[e].pc # "done" /\ execs'[e].pc = "done")
            => monitors'[execs'[e].sid] = 0
       /\ (~Over /\ Over') => mon'.pc # "running"]_vars

\* process_chat_with_sse ended without a terminal event after its watcher
\* had published, and its monitor is gone
C12_Witness ==
    /\ execs[1].pc = "done"
    /\ execs[1].n = 0
    /\ monitors[execs[1].sid] = 0
    /\ active_streams[execs[1].sid] # 0
    /\ \E i \in 1..Len(queues[active_streams[execs[1].sid]]) :
         queues[active_streams[execs[1].sid]][i].origin.src = "watcher"

\* C13: when the last subscriber of a session disconnects, no execution of
\* that session is running afterwards and the session's watcher is stopped.
C13_CancelOnLastDisconnect ==
    [][\A s \in Subs :
        (/\ subs[s].pc = "attached" /\ subs'[s].pc = "closed"
         /\ \A t \in Subs : ~(subs'[t].pc = "attached" /\ subs'[t].sid = subs[s].sid))
        => /\ \A e \in Execs : execs'[e].sid = subs[s].sid => execs'[e].pc # "streaming"
           /\ monitors'[subs[s].sid] = 0]_vars

\* C18: after a session is cleared it has no entry in active_streams, no
\* attached subscriber and no registered file monitor.
C18_ClearReleasesAll ==
    [][\A sid \in Sessions :
        (workspace[sid] # {} /\ workspace'[sid] = {})
        => /\ active_streams'[sid] = 0
           /\ \A s \in Subs : ~(subs'[s].pc = "attached" /\ subs'[s].sid = sid)
           /\ monitors'[sid] = 0]_vars

----------------------------------------------------------------------------
(* Claims about publication and subscription *)

\* C14: the events published on a queue that send_event created, while no
\* subscriber has attached since, are all waiting, in publication order, on
\* the queue registered for the session: the next subscriber receives them.
C14_LateSubscriberBacklog ==
    \A sid \in Sessions :
        lazy[sid] # <<>>
        => /\ active_streams[sid] # 0
           /\ queues[active_streams[sid]] = lazy[sid]

\* C15: every attached subscriber has a queue of its own, shared with no
\* other subscriber, and that queue has a bound which it does not exceed.
C15_OwnBoundedQueue ==
    \A s \in Subs :
        subs[s].pc = "attached"
        => /\ \A t \in Subs :
                (t # s /\ subs[t].pc = "attached") => subs[t].queue # subs[s].queue
           /\ QueueMaxsize > 0
           /\ Len(queues[subs[s].queue]) <= QueueMaxsize

\* C16: no queue is ever full, so that the put of send_event returns
\* without waiting for a subscriber, whatever was left unconsumed.
C16_PublishNeverBlocks == \A q \in 1..Len(queues) : ~QueueFull(queues[q])

\* an attached subscriber has left several events unconsumed
C16_Witness ==
    /\ subs[1].pc = "attached"
    /\ Len(queues[subs[1].queue]) >= 3
    /\ execs[1].pc = "streaming"

\* C17: the step in which a subscriber is sent a ping leaves it attached to
\* the same queue, and leaves the queues and their registration as they were.
C17_PingKeepsOpen ==
    [][\A s \in Subs :
        (subs[s].pc = "attached" /\ subs'[s].recv = Append(subs[s].recv, Ping))
        => /\ subs'[s].pc = "attached"
           /\ subs'[s].queue = subs[s].queue
           /\ active_streams' = active_streams
           /\ queues' = queues]_vars

\* the subscriber received a ping and, after it, an event of the execution
C17_Witness ==
    \E i \in 1..Len(subs[1].recv), j \in 1..Len(subs[1].recv) :
        /\ i < j
        /\ subs[1].recv[i] = Ping
        /\ subs[1].recv[j].origin.src = "adapter"

----------------------------------------------------------------------------
(* Claims about the parser *)

C20_ScenarioA ==
    lines = <<InitLine, LsLine, DoneLine>>
    => /\ Len(yielded) = 3
       /\ yielded[1].type = "verbose" /\ yielded[1].subtype = "init"
       /\ yielded[2].type = "verbose" /\ yielded[2].subtype = "tool_start"
       /\ yielded[2].message = <<"Listing: ", ".">>
       /\ yielded[3].type = "success" /\ yielded[3].result = <<"done">>

\* a record by which the agent reports an error
AgentError(line) ==
    /\ Strip(line.text) # <<>>
    /\ line.json = "object"
    /\ (line.type = "result" /\ line.is_error) \/ line.type = "error"

\* C25: reading a result record with the error flag, or a record of type
\* error, makes the adapter yield one error event and stop reading.
C25_AgentErrorEnds ==
    [][(lines' # lines /\ AgentError(lines'[Len(lines')]))
        => /\ Len(yielded') = Len(yielded) + 1
           /\ yielded'[Len(yielded')].type = "error"
           /\ apc' # "reading"]_vars

\* C23: when readline raises, the adapter yields one event, which is
\* fallback_required if the message holds "separator" and "chunk" and an
\* error event otherwise, and the generator is finished.
C23_ExceptionClassified ==
    [][\A kind \in ExcKinds, fb \in FallbackResults :
        ReadRaise(kind, fb)
        => LET new == SubSeq(yielded', Len(yielded) + 1, Len(yielded')) IN
           /\ Len(new) = 1
           /\ new[1].type = (IF kind = "sepchunk" THEN "fallback_required" ELSE "error")
           /\ apc' \in {"done", "closed"}]_vars

\* after some events, an exception with "separator" and "chunk" was raised
C23_Witness ==
    /\ apc = "done" /\ path = "ws_main"
    /\ Len(yielded) >= 2
    /\ yielded[Len(yielded)].type = "fallback_required"

----------------------------------------------------------------------------
(* Claims about what the hub publishes and keeps *)

\* the events put on the queue of session sid by the step
Published(sid) ==
    LET q == IF active_streams'[sid] = 0 THEN <<>> ELSE queues'[active_streams'[sid]]
    IN SubSeq(q, Len(q) - (npub' - npub) + 1, Len(q))

\* C21: a file_created event is published for a session only while an
\* execution of that session is streaming.
C21_FileCreatedOnlyInFlight ==
    [][\A sid \in Sessions :
        \A i \in 1..Len(Published(sid)) :
            Published(sid)[i].data.subtype = "file_created"
            => \E e \in Execs : execs[e].pc = "streaming" /\ execs[e].sid = sid]_vars

\* C22: while a session has no attached subscriber the hub holds no queued
\* event for it.
C22_NoHistoryKept ==
    \A sid \in Sessions :
        (\A s \in Subs : ~(subs[s].pc = "attached" /\ subs[s].sid = sid))
        => (active_streams[sid] = 0 \/ queues[active_streams[sid]] = <<>>)

----------------------------------------------------------------------------
(* Claims about the file watcher *)

\* the event is not a directory event, no component of its path begins
\* with "." or "~", its file name ends with neither .swp nor .lock, and its
\* resolved path lies under the resolved root
Qualifies(root, event) ==
    LET name == event.src_path[Len(event.src_path)] IN
    /\ ~event.is_directory
    /\ \A i \in 1..Len(event.src_path) : Head(event.src_path[i]) \notin {".", "~"}
    /\ name[Len(name)] \notin {".swp", ".lock"}
    /\ Inside(Resolve(event.src_path), Resolve(root))

\* C26: on_any_event schedules the callback exactly for the qualifying
\* events, with the kind of the event and the resolved path relative to
\* the resolved root.
C26_CallbackIffQualifying ==
    [][\A sid \in Sessions, event \in OsEvents :
        OsEvent(sid, event)
        => IF Qualifies(WatchedDir(sid), event)
           THEN /\ Len(pending') = Len(pending) + 1
                /\ pending'[Len(pending')].kind = event.event_type
                /\ pending'[Len(pending')].file =
                     Tail(Flatten(SubSeq(Resolve(event.src_path),
                                         Len(Resolve(WatchedDir(sid))) + 1,
                                         Len(Resolve(event.src_path)))))
           ELSE pending' = pending]_vars

\* the callback was scheduled for the file f of the subdirectory ab
C26_Witness ==
    /\ nfs = 1
    /\ Len(pending) = 1
    /\ pending[1].file = Tail(Flatten(<<AB, F>>))

\* the events of the watcher in a queue, in the order of the file system
\* events that caused them
WatcherOrdered(q) ==
    \A i, j \in 1..Len(q) :
        (i < j /\ q[i].origin.src = "watcher" /\ q[j].origin.src = "watcher")
        => q[i].origin.n <= q[j].origin.n

\* C27: a step of the observer thread only schedules (it runs no callback
\* and leaves the hub and its queues alone), and the loop runs the
\* callbacks one at a time in the order in which they were scheduled.
C27_CallbacksOnLoopInOrder ==
    [][/\ nfs' # nfs => /\ queues' = queues
                        /\ active_streams' = active_streams
                        /\ npub' = npub
       /\ \A i \in 1..Len(queues') : WatcherOrdered(queues'[i])]_vars

\* the callbacks of two file system events have both published
C27_Witness ==
    /\ nfs = 2
    /\ pending = <<>>
    /\ \E k \in 1..Len(queues) : \E i, j \in 1..Len(queues[k]) :
        /\ queues[k][i].origin.src = "watcher" /\ queues[k][i].origin.n = 1
        /\ queues[k][j].origin.src = "watcher" /\ queues[k][j].origin.n = 2

\* C28: an OS error raised while the polling monitor takes its snapshot
\* does not end the watching: the monitor is still polling afterwards.
C28_WatchSurvivesError ==
    [][MonitorFail => mon'.pc = "running"]_vars

\* C29: the polling monitor sends files_updated only at a poll whose
\* snapshot differs from the baseline, and the message carries the full
\* current file list and the set of the paths new since the baseline.
C29_PollReportsListAndNew ==
    [][\A sid \in Sessions :
        /\ MonitorPoll(sid) => workspace[sid] # mon.initial_files
        /\ MonitorPoll(sid)
           => LET m == client'[Len(client')] IN
              /\ m.type = "files_updated"
              /\ m.files = workspace[sid]
              /\ "new_files" \in DOMAIN m
              /\ m.new_files = workspace[sid] \ mon.initial_files]_vars

\* the pieces that mark a temporary name
TempMarkers == {".tmp.12345", ".1756881179", ".temp"}

\* the name of a file without its temporary suffix
LogicalName(file) == SelectSeq(file, LAMBDA t : t \notin TempMarkers)

\* C30: a file created under a temporary name is reported by its logical
\* name, in the file_created message as well as in the list of new paths
\* of the files_updated event.
C30_TempNameStripped ==
    [][(RunCallback /\ Head(pending).kind = "created")
       => LET c == Head(pending)
              new == Published(c.sid)
          IN \A i \in 1..Len(new) :
              /\ new[i].data.subtype = "file_created"
                 => new[i].data.message = <<"Created ">> \o LogicalName(c.file)
              /\ new[i].type = "files_updated"
                 => new[i].data.message = LogicalName(c.file)]_vars

----------------------------------------------------------------------------
(* Claims about the streams of the subscribers *)

\* C31: the first event a subscriber receives on its stream is the
\* connected event; every queued event and every ping comes after it.
C31_ConnectedFirst ==
    \A s \in Subs :
        subs[s].pc = "attached"
        => /\ subs[s].recv # <<>>
           /\ subs[s].recv[1].type = "connected"
           /\ \A i \in 2..Len(subs[s].recv) : subs[s].recv[i].type # "connected"

\* a subscriber that attached after events had been queued for its session
\* has received the connected event and then one of those events
C31_Witness ==
    /\ subs[1].pc = "attached"
    /\ subs[1].since > 0
    /\ Len(subs[1].recv) >= 2
    /\ subs[1].recv[1].type = "connected"
    /\ subs[1].recv[2].origin.id > 0
    /\ subs[1].recv[2].origin.id <= subs[1].since

\* C32: the queue an attached subscriber reads from is the queue that
\* send_event writes to for the session of the subscriber.
C32_ReadsPublishedQueue ==
    \A s \in Subs :
        subs[s].pc = "attached" => subs[s].queue = active_streams[subs[s].sid]

----------------------------------------------------------------------------
(* Claims about the monitors of the sessions *)

\* C33: while an execution of process_chat_with_sse is streaming, a monitor
\* is registered for its session.
C33_WatchedWhileInFlight ==
    \A e \in Execs :
        execs[e].pc = "streaming" => monitors[execs[e].sid] # 0

\* C39: start_monitoring for a session that has a monitor changes nothing,
\* and otherwise registers the monitor of the caller; stop_monitoring for a
\* session without a monitor changes nothing, after it the session has no
\* monitor, and no file system event is handled without a monitor.
C39_OneMonitorPerSession ==
    [][/\ \A e \in Execs, sid \in Sessions :
            ExecStart(e, sid)
            => IF monitors[sid] # 0 THEN monitors' = monitors
               ELSE monitors' = [monitors EXCEPT ![sid] = e]
       /\ \A e \in Execs :
            (execs[e].pc = "streaming" /\ execs'[e].pc = "done")
            => /\ monitors'[execs[e].sid] = 0
               /\ monitors[execs[e].sid] = 0 => monitors' = monitors
       /\ nfs' # nfs => \E sid \in Sessions : monitors[sid] # 0]_vars

\* the second execution of a session started while the monitor of the
\* first was registered, and the monitor is still that of the first
C39_Witness ==
    /\ execs[1].pc = "streaming"
    /\ execs[2].pc = "streaming"
    /\ execs[2].sid = execs[1].sid
    /\ monitors[execs[1].sid] = 1

----------------------------------------------------------------------------
(* Claims about the polling monitor *)

\* C34: the baseline of the polling monitor only grows; a poll sends
\* files_updated only for paths that are not in the baseline and adds them
\* to it, so that a path is reported at most once, also when it is deleted
\* and created again; the deletion of files sends nothing.
C34_BaselineOnlyGrows ==
    [][/\ mon.initial_files \subseteq mon'.initial_files
       /\ \A sid \in Sessions :
            MonitorPoll(sid)
            => /\ workspace[sid] \ mon.initial_files # {}
               /\ mon'.initial_files = mon.initial_files \cup workspace[sid]
       /\ (mon.pc = "running" /\ mon'.pc = "running" /\ Len(client') > Len(client)
           /\ client'[Len(client')].type = "files_updated")
          => mon'.initial_files # mon.initial_files
       /\ \A sid \in Sessions : ClearSession(sid) => client' = client]_vars

\* b.txt is in the baseline and exists after two creations, with one
\* files_updated message sent: it was reported, deleted and created again
\* (or created, deleted and created again before the one poll)
C34_Witness ==
    /\ mon.pc = "running"
    /\ nfs = 2
    /\ mon.initial_files = {<<"b.txt">>}
    /\ \E sid \in Sessions : workspace[sid] = {<<"b.txt">>}
    /\ Len(Updates(client)) = 1

----------------------------------------------------------------------------
(* Claims about the non-streaming calls and the SDK clients *)

\* C35: a call reports success only when the response ended with a
\* ResultMessage that is not an error.
C35_SuccessNeedsGoodResult ==
    [][\A c \in Calls, outcome \in Outcomes :
        (Respond(c, outcome) /\ calls'[c].ret.success) => outcome = "result"]_vars

\* no process_chat_message or resume_session call is in progress
Quiescent == \A c \in Calls : calls[c].pc \in {"idle", "done"}

\* C37: when no call is in progress, every connected client belongs to a
\* workflow that is the entry of a session in _active_workflows.
C37_ClosedBeforeDropped ==
    Quiescent
    => \A k \in 1..Len(clients) :
          clients[k].connected
          => \E sid \in Sessions : active_workflows[sid] = clients[k].agent

\* C38: every connected client is the client its agent holds, the one that
\* close will disconnect; an agent has at most one connected client.
C38_OneClientPerAgent ==
    \A k \in 1..Len(clients) :
        clients[k].connected => agents[clients[k].agent].client = k

----------------------------------------------------------------------------
(* Claims about the migration of old file names *)

\* the name begins with 32 hexadecimal characters and an underscore
HexPrefixed(name) == Len(name) >= 2 /\ name[1] = "H32" /\ name[2] = "_"

\* C36: a read-only query leaves every file whose name does not begin with
\* 32 hexadecimal characters and an underscore as it is, and a file it
\* renames never takes the name of an existing file.
C36_QueriesKeepOtherFiles ==
    [][\A order \in Listings :
        FileQuery(order)
        => /\ \A f \in session_files : ~HexPrefixed(f.name) => f \in session_files'
           /\ \A g \in session_files' \ session_files :
                g.name \notin FileNamesOf(session_files)]_vars

====
